---- MODULE Spec2Model ----
(***************************************************************************)
(* State-machine model of the self-update engine of wab2b-helper:          *)
(* UpdateManager (src/wab2b-helper/src/updater/updateManager.ts) on top of *)
(* the Tauri bridge (src/unnamed/part_014, tauriBridge.ts).                *)
(*                                                                         *)
(* JavaScript strings are modelled as sequences of one-character strings,  *)
(* so that split, includes, endsWith, toLowerCase and the relational       *)
(* string comparison are computed character by character.                  *)
(* An optional value (`x?: T`, undefined) is a sequence of length 0 or 1.  *)
(***************************************************************************)
EXTENDS Integers, Sequences, FiniteSets, TLC

\* ------------------------------------------------------------------------
\* Bounds of the model
\* ------------------------------------------------------------------------

\* number of calls of the UpdateManager (checkForUpdates, downloadUpdate,
\* installUpdate, onStateChange and the removers it returns) the
\* application issues over one behaviour
MaxOps == 4

\* number of calls that may be suspended at an await at the same time:
\* up to half of the calls issued overlap
MaxInFlight == MaxOps \div 2

\* the longest asset list selectPlatformAsset is exercised on
MaxAssets == 3

\* ------------------------------------------------------------------------
\* Optional values
\* ------------------------------------------------------------------------

None == <<>>

Some(x) == <<x>>

IsSome(o) == Len(o) > 0

Get(o) == o[1]

\* ------------------------------------------------------------------------
\* JavaScript string primitives on character sequences
\* ------------------------------------------------------------------------

UpperChars == <<"A","B","C","D","E","F","G","H","I","J","K","L","M",
                "N","O","P","Q","R","S","T","U","V","W","X","Y","Z">>

LowerChars == <<"a","b","c","d","e","f","g","h","i","j","k","l","m",
                "n","o","p","q","r","s","t","u","v","w","x","y","z">>

DigitChars == <<"0","1","2","3","4","5","6","7","8","9">>

\* the characters of the model in UTF-16 code unit order
CodeOrder == <<" ", "-", ".">> \o DigitChars \o UpperChars \o <<"_">> \o LowerChars

IndexOf(seq, c) == CHOOSE i \in 1..Len(seq) : seq[i] = c

InSeq(seq, c) == \E i \in 1..Len(seq) : seq[i] = c

CharCode(c) == IndexOf(CodeOrder, c)

\* String.prototype.toLowerCase, one character
LowerChar(c) == IF InSeq(UpperChars, c) THEN LowerChars[IndexOf(UpperChars, c)] ELSE c

\* String.prototype.toLowerCase
ToLowerCase(s) == [i \in 1..Len(s) |-> LowerChar(s[i])]

\* sub occurs in s at position i (1-based)
MatchAt(s, sub, i) ==
    /\ i >= 1
    /\ i + Len(sub) - 1 <= Len(s)
    /\ \A k \in 1..Len(sub) : s[i + k - 1] = sub[k]

\* String.prototype.includes
Includes(s, sub) == \E i \in 1..(Len(s) + 1) : MatchAt(s, sub, i)

\* String.prototype.endsWith
EndsWith(s, suf) == Len(suf) <= Len(s) /\ MatchAt(s, suf, Len(s) - Len(suf) + 1)

\* String.prototype.split with a one-character separator: all the pieces
RECURSIVE SplitFrom(_, _, _, _)
SplitFrom(s, sep, i, cur) ==
    IF i > Len(s) THEN <<cur>>
    ELSE IF s[i] = sep THEN <<cur>> \o SplitFrom(s, sep, i + 1, <<>>)
    ELSE SplitFrom(s, sep, i + 1, Append(cur, s[i]))

Split(s, sep) == SplitFrom(s, sep, 1, <<>>)

\* the relational comparison a < b of two strings (code unit order)
RECURSIVE StrLess(_, _)
StrLess(a, b) ==
    IF Len(b) = 0 THEN FALSE
    ELSE IF Len(a) = 0 THEN TRUE
    ELSE IF a[1] = b[1] THEN StrLess(Tail(a), Tail(b))
    ELSE CharCode(a[1]) < CharCode(b[1])

\* A JavaScript number: an integer, or NaN / Infinity
Num(n) == [kind |-> "int", val |-> n]

NaN == [kind |-> "NaN", val |-> 0]

Infinity == [kind |-> "Infinity", val |-> 0]

RECURSIVE DecimalValue(_)
DecimalValue(s) ==
    IF Len(s) = 0 THEN 0
    ELSE 10 * DecimalValue(SubSeq(s, 1, Len(s) - 1)) + (IndexOf(DigitChars, s[Len(s)]) - 1)

IsDigits(s) == \A i \in 1..Len(s) : InSeq(DigitChars, s[i])

\* the digits of the radix literals 0x.., 0o.., 0b..
HexChars == DigitChars \o <<"a","b","c","d","e","f">>

\* s is a non-empty run of digits of the radix
IsRadixDigits(s, radix) ==
    /\ Len(s) > 0
    /\ \A i \in 1..Len(s) :
          /\ InSeq(HexChars, LowerChar(s[i]))
          /\ IndexOf(HexChars, LowerChar(s[i])) <= radix

RECURSIVE RadixValue(_, _)
RadixValue(s, radix) ==
    IF Len(s) = 0 THEN 0
    ELSE radix * RadixValue(SubSeq(s, 1, Len(s) - 1), radix)
         + (IndexOf(HexChars, LowerChar(s[Len(s)])) - 1)

RECURSIVE Pow10(_)
Pow10(k) == IF k = 0 THEN 1 ELSE 10 * Pow10(k - 1)

\* the string without its leading and trailing blanks
RECURSIVE Trim(_)
Trim(s) ==
    IF Len(s) = 0 THEN s
    ELSE IF s[1] = " " THEN Trim(Tail(s))
    ELSE IF s[Len(s)] = " " THEN Trim(SubSeq(s, 1, Len(s) - 1))
    ELSE s

S_Infinity == <<"I","n","f","i","n","i","t","y">>

\* the radix a prefix 0x / 0o / 0b announces, 0 for no such prefix
RadixOf(s) ==
    IF Len(s) < 2 \/ s[1] # "0" THEN 0
    ELSE CASE LowerChar(s[2]) = "x" -> 16
           [] LowerChar(s[2]) = "o" -> 8
           [] LowerChar(s[2]) = "b" -> 2
           [] OTHER -> 0

\* the positions of s that split it into digits, `e` or `E`, digits
ExponentAt(s) ==
    {k \in 2..(Len(s) - 1) :
        /\ LowerChar(s[k]) = "e"
        /\ IsDigits(SubSeq(s, 1, k - 1))
        /\ IsDigits(SubSeq(s, k + 1, Len(s)))}

\* Number(s) for a string of the model's alphabet (no sign, no decimal
\* point) whose value is below 2^31: blanks are trimmed, "" is 0, a run of
\* digits is its decimal value, digits with an exponent and the radix
\* literals are their value, "Infinity" is Infinity, anything else is NaN
ToNumber(s) ==
    LET t == Trim(s)
    IN  IF IsDigits(t) THEN Num(DecimalValue(t))
        ELSE IF t = S_Infinity THEN Infinity
        ELSE IF RadixOf(t) # 0
        THEN (IF IsRadixDigits(SubSeq(t, 3, Len(t)), RadixOf(t))
              THEN Num(RadixValue(SubSeq(t, 3, Len(t)), RadixOf(t)))
              ELSE NaN)
        ELSE IF ExponentAt(t) # {}
        THEN LET k == CHOOSE k \in ExponentAt(t) : TRUE
             IN  Num(DecimalValue(SubSeq(t, 1, k - 1))
                     * Pow10(DecimalValue(SubSeq(t, k + 1, Len(t)))))
        ELSE NaN

\* `x || 0` on a number or undefined: NaN, 0 and undefined give 0
OrZero(o) == IF IsSome(o) /\ Get(o).kind # "NaN" THEN Get(o) ELSE Num(0)

\* a > b on two numbers that are not NaN
NumGreater(a, b) ==
    IF b.kind = "Infinity" THEN FALSE
    ELSE IF a.kind = "Infinity" THEN TRUE
    ELSE a.val > b.val

\* parts[i] of a JavaScript array, 0-based; undefined past the end
At(arr, i) == IF i + 1 <= Len(arr) THEN Some(arr[i + 1]) ELSE None

\* truthiness of an optional string: undefined and "" are falsy
Truthy(o) == IsSome(o) /\ Len(Get(o)) > 0

Max(a, b) == IF a >= b THEN a ELSE b

\* ------------------------------------------------------------------------
\* UpdateManager.compareVersions
\* ------------------------------------------------------------------------

\* base.split('.').map(Number)
BaseParts(base) == LET pieces == Split(base, ".")
                   IN  [i \in 1..Len(pieces) |-> ToNumber(pieces[i])]

\* CompareBase deciding at the last index where the parts differ
CompareBase_last(parts1, parts2) ==
    LET n == Max(Len(parts1), Len(parts2))
        part1(i) == OrZero(At(parts1, i))
        part2(i) == OrZero(At(parts2, i))
        diff == {i \in 0..(n - 1) : \/ NumGreater(part1(i), part2(i))
                                     \/ NumGreater(part2(i), part1(i))}
    IN  IF diff = {} THEN 0
        ELSE LET i == CHOOSE k \in diff : \A m \in diff : k >= m
             IN  IF NumGreater(part1(i), part2(i)) THEN 1 ELSE -1

\* the loop over the base parts: 1 / -1 at the first index where the
\* parts differ, 0 when the loop runs to its end
CompareBase(parts1, parts2) ==
    LET n == Max(Len(parts1), Len(parts2))
        part1(i) == OrZero(At(parts1, i))
        part2(i) == OrZero(At(parts2, i))
        diff == {i \in 0..(n - 1) : \/ NumGreater(part1(i), part2(i))
                                     \/ NumGreater(part2(i), part1(i))}
    IN  IF diff = {} THEN 0
        ELSE LET i == CHOOSE k \in diff : \A m \in diff : k <= m
             IN  IF NumGreater(part1(i), part2(i)) THEN 1 ELSE -1

\* ComparePreRelease with `>=` written for `>` in the comparison of the
\* two pre-release strings
ComparePreRelease_gte(p1, p2) ==
    IF ~Truthy(p1) /\ Truthy(p2) THEN 1
    ELSE IF Truthy(p1) /\ ~Truthy(p2) THEN -1
    ELSE IF ~Truthy(p1) /\ ~Truthy(p2) THEN 0
    ELSE IF ~StrLess(Get(p1), Get(p2)) THEN 1
    ELSE -1

\* the part of compareVersions after the loop, on the (optional)
\* pre-release pieces of the two versions
ComparePreRelease(p1, p2) ==
    IF ~Truthy(p1) /\ Truthy(p2) THEN 1
    ELSE IF Truthy(p1) /\ ~Truthy(p2) THEN -1
    ELSE IF ~Truthy(p1) /\ ~Truthy(p2) THEN 0
    ELSE IF StrLess(Get(p2), Get(p1)) THEN 1
    ELSE IF StrLess(Get(p1), Get(p2)) THEN -1
    ELSE 0

\* const [v1Base, v1PreRelease] = v1.split('-'): the first two pieces
compareVersions(v1, v2) ==
    LET s1 == Split(v1, "-")
        s2 == Split(v2, "-")
        v1Base == s1[1]
        v2Base == s2[1]
        v1PreRelease == At(s1, 1)
        v2PreRelease == At(s2, 1)
        byBase == CompareBase(BaseParts(v1Base), BaseParts(v2Base))
    IN  IF byBase # 0 THEN byBase
        ELSE ComparePreRelease(v1PreRelease, v2PreRelease)

\* ------------------------------------------------------------------------
\* UpdateManager.selectPlatformAsset
\* ------------------------------------------------------------------------

S_win == <<"w","i","n">>

S_windows == <<"w","i","n","d","o","w","s">>

S_msi == <<".","m","s","i">>

S_exe == <<".","e","x","e">>

S_mac == <<"m","a","c">>

S_darwin == <<"d","a","r","w","i","n">>

S_dmg == <<".","d","m","g">>

S_pkg == <<".","p","k","g">>

S_linux == <<"l","i","n","u","x">>

S_AppImage == <<".","A","p","p","I","m","a","g","e">>

S_deb == <<".","d","e","b">>

S_rpm == <<".","r","p","m">>

\* the predicate handed to assets.find, for the asset name `assetName`
\* and the value `navPlatform` of navigator.platform
AssetMatches(assetName, navPlatform) ==
    LET platform == ToLowerCase(navPlatform)
        isWindows == Includes(platform, S_win)
        isMac == Includes(platform, S_mac)
        isLinux == Includes(platform, S_linux)
        name == ToLowerCase(assetName)
    IN  \/ isWindows /\ (\/ Includes(name, S_windows) \/ Includes(name, S_win)
                         \/ EndsWith(name, S_msi) \/ EndsWith(name, S_exe))
        \/ isMac /\ (\/ Includes(name, S_mac) \/ Includes(name, S_darwin)
                     \/ EndsWith(name, S_dmg) \/ EndsWith(name, S_pkg))
        \/ isLinux /\ (\/ Includes(name, S_linux) \/ EndsWith(name, S_AppImage)
                       \/ EndsWith(name, S_deb) \/ EndsWith(name, S_rpm))

\* the last matching asset instead of the first
selectPlatformAsset_last(assets, navPlatform) ==
    LET hits == {i \in 1..Len(assets) : AssetMatches(assets[i].name, navPlatform)}
    IN  IF hits = {} THEN None
        ELSE Some(assets[CHOOSE i \in hits : \A j \in hits : i >= j])

\* assets.find(...): the first matching asset, or undefined
selectPlatformAsset(assets, navPlatform) ==
    LET hits == {i \in 1..Len(assets) : AssetMatches(assets[i].name, navPlatform)}
    IN  IF hits = {} THEN None
        ELSE Some(assets[CHOOSE i \in hits : \A j \in hits : i <= j])

\* ------------------------------------------------------------------------
\* The environment: running binary, platform, release source, backend
\* ------------------------------------------------------------------------

V_020 == <<"0",".","2",".","0">>

V_030 == <<"0",".","3",".","0">>

V_030b1 == <<"0",".","3",".","0","-","b","e","t","a",".","1">>

V_12 == <<"1",".","2">>

V_1x == <<"1",".","x">>

V_empty == <<>>

V_10rc1 == <<"1",".","0","-","r","c","-","1">>

V_10dash == <<"1",".","0","-">>

\* versions the running binary may have (getVersion)
AppVersions == {V_020}

\* version strings of every shape: plain, pre-release, short, with a
\* component that is no number, empty, with two dashes, with an empty suffix
VersionSamples == {V_020, V_030, V_030b1, V_12, V_1x, V_empty, V_10rc1, V_10dash}

P_Win32 == <<"W","i","n","3","2">>

\* values of navigator.platform
NavPlatforms == {P_Win32}

N_windows == <<"a","p","p","_","w","i","n","d","o","w","s","_","x","6","4",".","e","x","e">>

N_macos == <<"a","p","p","_","m","a","c","o","s",".","d","m","g">>

N_linux == <<"a","p","p","_","l","i","n","u","x",".","A","p","p","I","m","a","g","e">>

MkAsset(name, tag) ==
    [name |-> name, downloadUrl |-> <<"https://dl/", tag>>, sha256 |-> <<"sha256:", tag>>]

\* the assets attached to the release of version v; the release 0.3.0 was
\* published without a Windows installer
AssetsOf(v) ==
    IF v = V_030 THEN <<MkAsset(N_macos, v), MkAsset(N_linux, v)>>
    ELSE <<MkAsset(N_windows, v), MkAsset(N_macos, v), MkAsset(N_linux, v)>>

\* a release as the release source lists it
Release(v, pre) ==
    [version |-> v, prerelease |-> pre, releaseNotes |-> <<"notes of ", v>>,
     assets |-> AssetsOf(v)]

\* what the release source may hold when it is queried, newest first, for
\* the running version v; the last one holds the release of v itself
\* (a source without a qualifying release makes the query fail, see
\* RejectionOf)
Catalogs(v) ==
    << <<Release(V_030b1, TRUE), Release(V_020, FALSE)>>,
       <<Release(V_030b1, FALSE)>>,
       <<Release(V_030, FALSE), Release(V_030b1, TRUE), Release(V_020, FALSE)>>,
       <<Release(v, FALSE)>> >>

CatalogIds == 1..4

\* the check_for_updates command of the backend: the newest release that
\* qualifies (pre-releases only when includeBeta), as a ReleaseInfo;
\* None when no release qualifies (the command fails)
FetchLatest(catalog, includeBeta) ==
    LET ok == {i \in 1..Len(catalog) : includeBeta \/ ~catalog[i].prerelease}
    IN  IF ok = {} THEN None
        ELSE LET r == catalog[CHOOSE i \in ok : \A j \in ok : i <= j]
             IN  Some([version |-> r.version, releaseNotes |-> r.releaseNotes,
                       assets |-> r.assets])

\* FetchLatest for every running version, catalog and includeBeta, and
\* selectPlatformAsset on the assets of the release fetched, tabulated
\* (the answers depend on nothing else)
Fetched ==
    [v \in VersionSamples, k \in CatalogIds, includeBeta \in BOOLEAN |->
        FetchLatest(Catalogs(v)[k], includeBeta)]

Selected ==
    [v \in VersionSamples, k \in CatalogIds, includeBeta \in BOOLEAN, p \in NavPlatforms |->
        IF IsSome(Fetched[v, k, includeBeta])
        THEN selectPlatformAsset(Get(Fetched[v, k, includeBeta]).assets, p)
        ELSE None]

\* the download_asset command of the backend returns the path it wrote
DownloadedTo(destination) == destination

\* the `download-progress` events (downloaded, total) the backend may emit
ProgressEvents == {<<0, 0>>, <<1, 2>>, <<2, 2>>}

\* the download_asset command of the backend, for one download: the total
\* stays the same and the bytes downloaded never decrease from one event
\* to the next (sent: the last event emitted, if any)
ProgressAllowed(sent, downloaded, total) ==
    IsSome(sent) => (total = Get(sent)[2] /\ downloaded >= Get(sent)[1])

\* the download_asset command resolves after a final event that reported
\* downloaded = total
TransferComplete(sent) == IsSome(sent) /\ Get(sent)[1] = Get(sent)[2]

AppDataDir == "appdata"

\* join(appData, `update-${version}.bin`)
JoinPath(dir, version) == <<dir, "/", "update-", version, ".bin">>

\* the text an invoke() of the backend rejects with
NetworkError == "NetworkError"

NotFoundError == "NotFoundError"

IOError == "IOError"

\* ------------------------------------------------------------------------
\* tauriBridge
\* ------------------------------------------------------------------------

\* const betaParam = includeBeta === undefined ? false : includeBeta
BetaParam(includeBeta) == IF IsSome(includeBeta) THEN Get(includeBeta) ELSE FALSE

\* throw new Error(`Failed to ...: ${...}`) of the four bridge functions
BridgeError(prefix, reason) == <<prefix, reason>>

E_check == "Failed to check for updates: "

E_download == "Failed to download asset: "

E_verify == "Failed to verify file hash: "

E_install == "Failed to install update: "

\* ------------------------------------------------------------------------
\* UpdateSettings and their persistence in localStorage
\* ------------------------------------------------------------------------

O_Asdmir786 == <<"Asdmir786">>

O_fork == <<"fork-owner">>

R_helper == <<"helper-wab2b-dashboard-system">>

R_fork == <<"fork-repo">>

\* an object without own properties: {}
EmptyObject == [k \in {} |-> FALSE]

\* DEFAULT_SETTINGS
DEFAULT_SETTINGS ==
    [autoCheck |-> TRUE, githubOwner |-> O_Asdmir786, githubRepo |-> R_helper]

\* { ...a, ...b }: the own properties of a, then those of b over them
Spread(a, b) ==
    [k \in (DOMAIN a) \cup (DOMAIN b) |-> IF k \in DOMAIN b THEN b[k] ELSE a[k]]

\* JSON.stringify(this.settings): the text of an object with these members
JSON_stringify(value) == [json |-> "object", members |-> value]

\* JSON.parse(text): throws on a text that is no JSON; what the spread
\* operator copies from the parsed value otherwise (nothing from null)
JSON_parse(text) ==
    CASE text.json = "object" -> [threw |-> FALSE, props |-> text.members]
      [] text.json = "null" -> [threw |-> FALSE, props |-> EmptyObject]
      [] OTHER -> [threw |-> TRUE, props |-> EmptyObject]

\* loadSettings, for what localStorage.getItem returned (null: None);
\* an empty string is falsy and is not parsed
loadSettings(item) ==
    IF ~IsSome(item) \/ Get(item).json = "empty" THEN EmptyObject
    ELSE IF JSON_parse(Get(item)).threw THEN EmptyObject
    ELSE JSON_parse(Get(item)).props

\* ConstructedSettings with the saved settings spread last
ConstructedSettings_savedLast(item, arg) ==
    Spread(Spread(DEFAULT_SETTINGS, arg), loadSettings(item))

\* the constructor's merge of defaults, saved settings and its argument
\* (an omitted argument spreads nothing)
ConstructedSettings(item, arg) ==
    Spread(Spread(DEFAULT_SETTINGS, loadSettings(item)), arg)

\* the argument App.tsx constructs its UpdateManager with
AppArg == [githubOwner |-> O_Asdmir786, githubRepo |-> R_helper]

\* what the storage key may hold when an UpdateManager is constructed:
\* nothing, an empty string, text that is no JSON, null, an object with
\* none, some or all of the settings
StoredSamples ==
    {None, Some([json |-> "empty"]), Some([json |-> "invalid"]), Some([json |-> "null"]),
     Some(JSON_stringify(EmptyObject)),
     Some(JSON_stringify([autoCheck |-> FALSE])),
     Some(JSON_stringify([githubRepo |-> R_fork])),
     Some(JSON_stringify([autoCheck |-> FALSE, githubOwner |-> O_fork, githubRepo |-> R_fork]))}

\* the two UpdateManager instances of the page: the one App.tsx makes and
\* another one made on the same storage key
Managers == {"app", "other"}

\* ------------------------------------------------------------------------
\* UpdateManager: state
\* ------------------------------------------------------------------------

VARIABLES
    state,        \* UpdateManager.state : UpdateState
    calls,        \* the invocations of the async methods suspended at an await
    ops,          \* how many public method calls were issued so far
    verified,     \* the file paths verify_file_hash answered true for
    ev,           \* the step just taken: call or settled promise, bridge command
    appVersion,   \* the version of the running binary
    navPlatform,  \* navigator.platform
    stateChangeListeners,  \* UpdateManager.stateChangeListeners, in array order
    removers,     \* the listeners onStateChange has returned a remover for
    delivered,    \* per setState the step just taken ran, in order, the listener calls it made
    cv,           \* version strings and what compareVersions returned for them
    sel,          \* an asset list, a platform and what selectPlatformAsset returned
    localStorage, \* the item stored under SETTINGS_STORAGE_KEY
    settings,     \* UpdateManager.settings of every constructed instance
    sv,           \* the settings operation just run: instance, argument, result
    orphans       \* per slot, the progress handlers its finished downloads left registered

vars == <<state, calls, ops, verified, ev, appVersion, navPlatform,
          stateChangeListeners, removers, delivered, cv,
          sel, localStorage, settings, sv, orphans>>

Statuses == {"idle", "checking", "available", "downloading", "ready", "installing", "error"}

Slots == 1..MaxInFlight

\* the constructor's initial UpdateState
InitialState ==
    [status |-> "idle",
     currentVersion |-> <<"0",".","0",".","0">>,
     latestVersion |-> None,
     releaseNotes |-> None,
     downloadProgress |-> None,
     error |-> None,
     downloadedFilePath |-> None]

\* { ...this.state, ...newState }
Merge(s, newState) ==
    [f \in DOMAIN s |-> IF f \in DOMAIN newState THEN newState[f] ELSE s[f]]

\* a free slot: no invocation suspended in it; otherwise the locals of the
\* invocation that are used after the await (of releaseInfo, its version),
\* the last progress event the backend emitted for its download, and
\* whether the handler it passed to listen() is registered
NoCall ==
    [kind |-> "none", pc |-> "none", includeBeta |-> None,
     currentVersion |-> None, version |-> None, asset |-> None,
     downloadPath |-> None, filePath |-> None, updatePath |-> None,
     sent |-> None, live |-> FALSE]

\* no step taken yet; otherwise the method or continuation that ran, its
\* slot, what the method returned, the command it invoked with its argument,
\* what the settled command had answered (version: of the release the
\* query returned), and the message of the error thrown inside the try
\* block, if one was
\* the handlers a slot's finished downloads left registered: those of a
\* listen() that rejected, which nothing removes, and those unlisten()
\* was called for and that are not removed yet
NoOrphans == [rejected |-> 0, unlistened |-> 0]

\* no removal asked for by unlisten() is outstanding. The removal is taken
\* to be complete before the next run of the application's code: until
\* then only `download-progress` events are delivered
Settled == \A i \in Slots : orphans[i].unlistened = 0

NoEvent ==
    [op |-> "none", slot |-> 0, returned |-> "none", cmd |-> "none",
     betaArg |-> None, includeBeta |-> None, path |-> None,
     version |-> None, answer |-> None, failure |-> None]

\* compareVersions not exercised on its own
NoCompare == [a |-> <<>>, b |-> <<>>, c |-> <<>>, r |-> None]

\* selectPlatformAsset not exercised on its own
NoSelect == [assets |-> <<>>, platform |-> <<>>, r |-> None]

\* no settings operation run yet; otherwise the method, the instance, its
\* argument, the stored item it found and what it returned
NoSettingsEvent ==
    [op |-> "none", m |-> "none", arg |-> EmptyObject, found |-> None, answer |-> None,
     threw |-> FALSE]

\* the messages of the errors thrown inside the try blocks
M_noUpdate == <<"No update available to download">>

M_noAsset == <<"No compatible update found for your platform">>

M_corrupt == <<"Update verification failed. The downloaded file may be corrupted.">>

M_notReady == <<"No update ready to install">>

\* the application as App.tsx constructs it on a fresh profile: nothing was
\* stored, and the storage accepted the constructor's write (the write
\* that throws is a case of the settings operations further down)
Init ==
    /\ state = InitialState
    /\ calls = [i \in Slots |-> NoCall]
    /\ ops = 0
    /\ verified = {}
    /\ ev = NoEvent
    /\ appVersion \in AppVersions
    /\ navPlatform \in NavPlatforms
    /\ stateChangeListeners = <<>>
    /\ removers = {}
    /\ delivered = <<>>
    /\ cv = NoCompare
    /\ sel = NoSelect
    /\ localStorage = Some(JSON_stringify(ConstructedSettings(None, AppArg)))
    /\ settings = [m \in Managers |->
                      IF m = "app" THEN Some(ConstructedSettings(None, AppArg)) ELSE None]
    /\ sv = NoSettingsEvent
    /\ orphans = [i \in Slots |-> NoOrphans]

\* ------------------------------------------------------------------------
\* UpdateManager: operations.  An async method runs from one await to the
\* next without interruption; every action below is one such run, started
\* by the call or by the settling of the awaited promise.
\* ------------------------------------------------------------------------

\* the slots holding a suspended invocation
InFlight == {i \in Slots : calls[i].kind # "none"}

\* a new call can be issued; if it suspends it takes the lowest free slot
CanCall == ops < MaxOps /\ InFlight # Slots

NewSlot == CHOOSE i \in Slots \ InFlight : \A j \in Slots \ InFlight : i <= j

\* Notify calling the listeners from the last one to the first
Notify_reversed(listeners, s) ==
    [n \in 1..Len(listeners) |->
        [listener |-> listeners[Len(listeners) - n + 1], snapshot |-> s, current |-> s]]

\* this.stateChangeListeners.forEach(listener => listener(this.state)):
\* the calls made, in order, each with the listener called, the snapshot
\* it is handed and what getUpdateState() returns during the call
Notify(listeners, s) ==
    [n \in 1..Len(listeners) |->
        [listener |-> listeners[n], snapshot |-> s, current |-> s]]

\* setState(newState): commit the merged state, then notify the listeners
setState(newState) ==
    /\ state' = Merge(state, newState)
    /\ delivered' = <<Notify(stateChangeListeners, Merge(state, newState))>>

\* a run that does not call setState
NoSetState == UNCHANGED state /\ delivered' = <<>>

\* Catch storing the status `error` without the message
Catch_noMessage(message) == setState([status |-> "error"])

\* setState({ status: 'error', error: ... }) of a catch block
Catch(message) == setState([status |-> "error", error |-> Some(message)])

\* compareVersions(latest, current) > 0, tabulated for the versions of the
\* environment
Newer ==
    [latest \in VersionSamples, current \in VersionSamples |->
        compareVersions(latest, current) > 0]

\* const hasUpdate = this.compareVersions(releaseInfo.version, currentVersion) > 0
HasUpdate(latest, current) == Newer[latest, current]

\* checkForUpdates(_manual, <betaArg>): up to `await getVersion()`.  The
\* method declares the parameter _manual only: a second argument of the
\* caller is bound to nothing
checkForUpdates(betaArg) ==
    /\ Settled
    /\ CanCall
    /\ setState([status |-> "checking"])
    /\ calls' = [calls EXCEPT ![NewSlot] =
                    [NoCall EXCEPT !.kind = "checkForUpdates", !.pc = "getVersion"]]
    /\ ev' = [NoEvent EXCEPT !.op = "checkForUpdates", !.slot = NewSlot,
                             !.betaArg = betaArg, !.returned = "pending",
                             !.cmd = "getVersion"]
    /\ ops' = ops + 1
    /\ UNCHANGED <<verified, appVersion, navPlatform, stateChangeListeners, removers, cv, sel, localStorage, settings, sv, orphans>>

\* getVersion() resolved: setState({ currentVersion }), then the bridge's
\* checkForUpdates(owner, repo), without includeBeta, up to its
\* `await invoke('check_for_updates', ...)`
checkForUpdates_gotVersion(i) ==
    /\ Settled
    /\ calls[i].kind = "checkForUpdates" /\ calls[i].pc = "getVersion"
    /\ LET includeBeta == BetaParam(None)
       IN  /\ setState([currentVersion |-> appVersion])
           /\ calls' = [calls EXCEPT ![i].pc = "check_for_updates",
                                     ![i].currentVersion = Some(appVersion),
                                     ![i].includeBeta = Some(includeBeta)]
           /\ ev' = [NoEvent EXCEPT !.op = "checkForUpdates_gotVersion", !.slot = i,
                                    !.returned = "pending",
                                    !.cmd = "check_for_updates",
                                    !.includeBeta = Some(includeBeta)]
    /\ UNCHANGED <<ops, verified, appVersion, navPlatform, stateChangeListeners, removers, cv, sel, localStorage, settings, sv, orphans>>

\* check_for_updates resolved with the release info: compare and settle
checkForUpdates_gotRelease(i, k) ==
    /\ Settled
    /\ calls[i].kind = "checkForUpdates" /\ calls[i].pc = "check_for_updates"
    /\ LET fetched == Fetched[appVersion, k, Get(calls[i].includeBeta)]
       IN  /\ IsSome(fetched)
           /\ LET releaseInfo == Get(fetched)
                  hasUpdate == HasUpdate(releaseInfo.version, Get(calls[i].currentVersion))
              IN  /\ IF hasUpdate
                     THEN setState([status |-> "available",
                                    latestVersion |-> Some(releaseInfo.version),
                                    releaseNotes |-> Some(releaseInfo.releaseNotes)])
                     ELSE setState([status |-> "idle"])
                  /\ ev' = [NoEvent EXCEPT !.op = "checkForUpdates_gotRelease", !.slot = i,
                                           !.version = Some(releaseInfo.version),
                                           !.returned = IF hasUpdate THEN "true" ELSE "false"]
    /\ calls' = [calls EXCEPT ![i] = NoCall]
    /\ UNCHANGED <<ops, verified, appVersion, navPlatform, stateChangeListeners, removers, cv, sel, localStorage, settings, sv, orphans>>

\* getVersion() or check_for_updates rejected: the catch block
checkForUpdates_catch(i, reason) ==
    /\ Settled
    /\ calls[i].kind = "checkForUpdates"
    /\ \/ calls[i].pc = "getVersion" /\ reason = IOError /\ Catch(<<reason>>)
       \/ calls[i].pc = "check_for_updates" /\ reason = NotFoundError
             /\ Catch(BridgeError(E_check, reason))
    /\ calls' = [calls EXCEPT ![i] = NoCall]
    /\ ev' = [NoEvent EXCEPT !.op = "checkForUpdates_catch", !.slot = i,
                             !.returned = "false",
                             !.failure = Some(IF calls[i].pc = "getVersion"
                                              THEN <<reason>>
                                              ELSE BridgeError(E_check, reason))]
    /\ UNCHANGED <<ops, verified, appVersion, navPlatform, stateChangeListeners, removers, cv, sel, localStorage, settings, sv, orphans>>

\* the significand of a JavaScript number (IEEE 754 double) has 53 bits
MantissaBits == 53

\* a natural number in binary, most significant bit first
RECURSIVE BitsOf(_)
BitsOf(n) == IF n = 0 THEN <<>> ELSE Append(BitsOf(n \div 2), n % 2)

\* the natural number a bit sequence stands for
BitsValue(bits) ==
    LET value[k \in 0..Len(bits)] == IF k = 0 THEN 0 ELSE 2 * value[k - 1] + bits[k]
    IN  value[Len(bits)]

\* the one element of a set of one element
Only(S) == CHOOSE r \in S : TRUE

\* the remainder of the binary long division r / t, for 0 <= r < t,
\* after n digits after the point (the digits are taken in two halves)
RECURSIVE RemainderAfter(_, _, _)
RemainderAfter(r, t, n) ==
    IF n = 0 THEN r
    ELSE IF n = 1 THEN (2 * r) % t
    ELSE Only({RemainderAfter(h, t, n - n \div 2) : h \in {RemainderAfter(r, t, n \div 2)}})

\* the first n binary digits after the point of r / t, for 0 <= r < t
RECURSIVE QuotientBits(_, _, _)
QuotientBits(r, t, n) ==
    IF n = 0 THEN <<>>
    ELSE IF n = 1 THEN <<(2 * r) \div t>>
    ELSE Only({QuotientBits(r, t, n \div 2) \o QuotientBits(h, t, n - n \div 2) :
                  h \in {RemainderAfter(r, t, n \div 2)}})

\* the zeros between the point and the first 1 of r / t, for 0 < r < t
RECURSIVE LeadingZeros(_, _)
LeadingZeros(r, t) ==
    IF 2 * r >= t THEN 0 ELSE Only({1 + LeadingZeros(r2, t) : r2 \in {2 * r}})

\* a + b, one bit longer than the longer of the two; a place (counted
\* from the right) carries over when a place at or below it has two
\* ones and every place between has at least one
AddBits(a, b) ==
    LET n == Max(Len(a), Len(b)) + 1
        ones(k) == (IF k <= Len(a) THEN a[Len(a) + 1 - k] ELSE 0)
                   + (IF k <= Len(b) THEN b[Len(b) + 1 - k] ELSE 0)
        carry(k) == IF \E j \in 1..k : ones(j) = 2 /\ \A i \in (j + 1)..k : ones(i) >= 1
                    THEN 1 ELSE 0
    IN  SubSeq([k \in 1..n |-> (ones(n + 1 - k) + carry(n - k)) % 2], 1, n)

\* bits + 1
Increment(bits) == AddBits(bits, <<1>>)

\* bits * 2^n
ShiftLeft(bits, n) == bits \o [k \in 1..n |-> 0]

\* bits without its leading zeros
Strip(bits) ==
    LET ones == {k \in 1..Len(bits) : bits[k] = 1}
    IN  IF ones = {} THEN <<>>
        ELSE SubSeq(bits, CHOOSE k \in ones : \A j \in ones : k <= j, Len(bits))

\* the number rounded to 53 significant bits, ties to even: what an
\* arithmetic operation on doubles returns for the exact result `bits`
RoundToDouble(bits) ==
    LET b == Strip(bits)
        n == Len(b) - MantissaBits
    IN  IF n <= 0 THEN b
        ELSE LET kept == SubSeq(b, 1, MantissaBits)
                 up == /\ b[MantissaBits + 1] = 1
                       /\ \/ kept[MantissaBits] = 1
                          \/ \E k \in (MantissaBits + 2)..Len(b) : b[k] = 1
             IN  ShiftLeft(IF up THEN Strip(Increment(kept)) ELSE kept, n)

\* downloaded / total as a double, for downloaded, total > 0: the
\* significand `bits` with `frac` of its bits after the point; the
\* quotient is cut after 53 significant bits and rounded by what is left
Divide(downloaded, total) ==
    LET whole == BitsOf(downloaded \div total)
        r == downloaded % total
        frac == IF whole # <<>> THEN MantissaBits - Len(whole)
                ELSE LeadingZeros(r, total) + MantissaBits
        Rounded(m, rest) ==
            IF 2 * rest > total \/ (2 * rest = total /\ m[Len(m)] = 1)
            THEN Increment(m) ELSE m
    IN  Only({[bits |-> Strip(Rounded(m, rest)), frac |-> f] :
                 f \in {frac},
                 m \in {whole \o QuotientBits(r, total, frac)},
                 rest \in {RemainderAfter(r, total, frac)}})

\* q * 100 as a double: the exact product, rounded
Times100(q) ==
    [bits |-> RoundToDouble(AddBits(AddBits(ShiftLeft(q.bits, 6), ShiftLeft(q.bits, 5)),
                                    ShiftLeft(q.bits, 2))),
     frac |-> q.frac]

\* Math.round(x): the integer below x plus one half, x having its
\* first 1 before the point, right after it, or further right
MathRound(x) ==
    LET n == Len(x.bits) - x.frac
    IN  IF n > 0 THEN Only({BitsValue(w) : w \in {SubSeq(x.bits, 1, n)}}) + x.bits[n + 1]
        ELSE IF n = 0 /\ x.bits # <<>> THEN 1
        ELSE 0

\* Math.round((downloaded / total) * 100), in double arithmetic: the
\* quotient is rounded, then the product is rounded
Progress(downloaded, total) ==
    IF total = 0 THEN (IF downloaded = 0 THEN NaN ELSE Infinity)
    ELSE IF downloaded = 0 THEN Num(0)
    ELSE Num(Only({MathRound(x) : x \in {Times100(q) : q \in {Divide(downloaded, total)}}}))

\* Progress for the events of the environment, tabulated
Percent == [e \in ProgressEvents |-> Progress(e[1], e[2])]

\* the guard of downloadUpdate, negated: this.state.status !== 'available'
\* does not throw
CanDownload(s) == s.status = "available"

\* Downloading without the progress
Downloading_noProgress == [status |-> "downloading"]

\* { status: 'downloading', downloadProgress: 0 }
Downloading == [status |-> "downloading", downloadProgress |-> Some(Num(0))]

\* downloadUpdate(): the guard, setState downloading, up to the
\* `await invoke('check_for_updates', ...)` of the bridge
downloadUpdate ==
    /\ Settled
    /\ CanCall
    /\ IF ~CanDownload(state)
       THEN /\ Catch(M_noUpdate)
            /\ ev' = [NoEvent EXCEPT !.op = "downloadUpdate", !.returned = "false",
                                     !.failure = Some(M_noUpdate)]
            /\ UNCHANGED calls
       ELSE /\ setState(Downloading)
            /\ calls' = [calls EXCEPT ![NewSlot] =
                            [NoCall EXCEPT !.kind = "downloadUpdate",
                                           !.pc = "check_for_updates",
                                           !.includeBeta = Some(BetaParam(None))]]
            /\ ev' = [NoEvent EXCEPT !.op = "downloadUpdate", !.slot = NewSlot,
                                     !.returned = "pending", !.cmd = "check_for_updates",
                                     !.includeBeta = Some(BetaParam(None))]
    /\ ops' = ops + 1
    /\ UNCHANGED <<verified, appVersion, navPlatform, stateChangeListeners, removers, cv, sel, localStorage, settings, sv, orphans>>

\* NoAsset with every selection taken for an asset
NoAsset_never(asset) == FALSE

\* `if (!asset)`: selectPlatformAsset found nothing, the error is thrown
NoAsset(asset) == ~IsSome(asset)

\* check_for_updates resolved: select the asset, then `await appDataDir()`
downloadUpdate_gotRelease(i, k) ==
    /\ Settled
    /\ calls[i].kind = "downloadUpdate" /\ calls[i].pc = "check_for_updates"
    /\ LET fetched == Fetched[appVersion, k, Get(calls[i].includeBeta)]
       IN  /\ IsSome(fetched)
           /\ LET asset == Selected[appVersion, k, Get(calls[i].includeBeta), navPlatform]
                  e == [NoEvent EXCEPT !.op = "downloadUpdate_gotRelease", !.slot = i,
                                       !.version = Some(Get(fetched).version)]
              IN  IF NoAsset(asset)
                  THEN /\ Catch(M_noAsset)
                       /\ calls' = [calls EXCEPT ![i] = NoCall]
                       /\ ev' = [e EXCEPT !.returned = "false",
                                          !.failure = Some(M_noAsset)]
                  ELSE /\ calls' = [calls EXCEPT ![i].pc = "appDataDir",
                                                 ![i].version = Some(Get(fetched).version),
                                                 ![i].asset = asset]
                       /\ ev' = [e EXCEPT !.returned = "pending", !.cmd = "appDataDir"]
                       /\ NoSetState
    /\ UNCHANGED <<ops, verified, appVersion, navPlatform, stateChangeListeners, removers, cv, sel, localStorage, settings, sv, orphans>>

\* appDataDir() resolved: `await join(appData, ...)`
downloadUpdate_gotAppData(i) ==
    /\ Settled
    /\ calls[i].kind = "downloadUpdate" /\ calls[i].pc = "appDataDir"
    /\ calls' = [calls EXCEPT ![i].pc = "join"]
    /\ ev' = [NoEvent EXCEPT !.op = "downloadUpdate_gotAppData", !.slot = i,
                             !.returned = "pending", !.cmd = "join"]
    /\ NoSetState
    /\ UNCHANGED <<ops, verified, appVersion, navPlatform, stateChangeListeners, removers, cv, sel, localStorage, settings, sv, orphans>>

\* join() resolved: downloadAsset(url, downloadPath, onProgress) up to its
\* `await listen('download-progress', ...)`. The event library is not
\* part of the sources: the handler may be registered as soon as
\* listen() is called (registered) or only when it resolves
downloadUpdate_gotPath(i, registered) ==
    /\ Settled
    /\ calls[i].kind = "downloadUpdate" /\ calls[i].pc = "join"
    /\ calls' = [calls EXCEPT
                    ![i].pc = "listen",
                    ![i].live = registered,
                    ![i].downloadPath =
                        Some(JoinPath(AppDataDir, Get(calls[i].version)))]
    /\ ev' = [NoEvent EXCEPT !.op = "downloadUpdate_gotPath", !.slot = i,
                             !.returned = "pending", !.cmd = "listen"]
    /\ NoSetState
    /\ UNCHANGED <<ops, verified, appVersion, navPlatform, stateChangeListeners, removers, cv, sel, localStorage, settings, sv, orphans>>

\* listen() resolved: the handler is registered by now at the latest and
\* `unlisten` is set, then `await invoke('download_asset', ...)`
downloadAsset_listening(i) ==
    /\ Settled
    /\ calls[i].kind = "downloadUpdate" /\ calls[i].pc = "listen"
    /\ calls' = [calls EXCEPT ![i].pc = "download_asset", ![i].live = TRUE]
    /\ ev' = [NoEvent EXCEPT !.op = "downloadAsset_listening", !.slot = i,
                             !.returned = "pending", !.cmd = "download_asset",
                             !.path = calls[i].downloadPath]
    /\ NoSetState
    /\ UNCHANGED <<ops, verified, appVersion, navPlatform, stateChangeListeners, removers, cv, sel, localStorage, settings, sv, orphans>>

\* listen() and the function it resolves to are the event library's,
\* which the sources do not hold. What downloadAsset fixes is the order
\* of the calls; when the registration and the removal take effect is
\* left open here: the handler is registered when listen() is called or
\* when it resolves, a listen() that rejects may have registered it, and
\* the removal unlisten() asks for happens at once or later.

\* the downloads with a progress handler registered
Listening ==
    {i \in Slots : \/ calls[i].live
                   \/ orphans[i].rejected > 0
                   \/ orphans[i].unlistened > 0}

\* how many progress handlers are registered
RECURSIVE Handlers(_)
Handlers(S) ==
    IF S = {} THEN 0
    ELSE LET i == CHOOSE x \in S : TRUE
         IN  (IF calls[i].live THEN 1 ELSE 0)
                 + orphans[i].rejected + orphans[i].unlistened + Handlers(S \ {i})

\* the downloads whose download_asset command is unsettled
Transferring ==
    {i \in Slots : calls[i].kind = "downloadUpdate" /\ calls[i].pc = "download_asset"}

\* a `download-progress` event of the download_asset command of download
\* i: every registered handler runs onProgress, each doing
\* setState({ downloadProgress: progress }) with the same value
onProgress(i, downloaded, total) ==
    /\ i \in Transferring
    /\ ProgressAllowed(calls[i].sent, downloaded, total)
    /\ calls' = [calls EXCEPT ![i].sent = Some(<<downloaded, total>>)]
    /\ Listening # {}
    /\ LET s == Merge(state, [downloadProgress |-> Some(Percent[<<downloaded, total>>])])
           round == Notify(stateChangeListeners, s)
       IN  /\ state' = s
           /\ delivered' = [n \in 1..Handlers(Slots) |-> round]
    /\ ev' = [NoEvent EXCEPT !.op = "onProgress"]
    /\ UNCHANGED <<ops, verified, appVersion, navPlatform, stateChangeListeners, removers, cv, sel, localStorage, settings, sv, orphans>>

\* payloads of the `download-progress` events emitted for other parts of
\* the application, as the handler destructures them: App.tsx listens to
\* the same event name for numbers while its download_file command runs,
\* and a number has neither a downloaded nor a total property
ForeignPayloads ==
    {[type |-> "number", downloaded |-> None, total |-> None],
     [type |-> "object", downloaded |-> Some(0), total |-> Some(0)],
     [type |-> "object", downloaded |-> Some(1), total |-> Some(4)]}

\* const { downloaded, total } = event.payload; onProgress(downloaded, total):
\* a property that is missing is undefined, and undefined / undefined is NaN
HandlerProgress(payload) ==
    IF IsSome(payload.downloaded) /\ IsSome(payload.total)
    THEN Progress(Get(payload.downloaded), Get(payload.total))
    ELSE NaN

\* HandlerProgress, tabulated
ForeignPercent == [payload \in ForeignPayloads |-> HandlerProgress(payload)]

\* a `download-progress` event that is not of a download_asset command of
\* this instance: the registered handlers do not test whose event it is,
\* every one of them runs onProgress
downloadProgress(payload) ==
    /\ Listening # {}
    /\ LET s == Merge(state, [downloadProgress |-> Some(ForeignPercent[payload])])
           round == Notify(stateChangeListeners, s)
       IN  /\ state' = s
           /\ delivered' = [n \in 1..Handlers(Slots) |-> round]
    /\ ev' = [NoEvent EXCEPT !.op = "downloadProgress"]
    /\ UNCHANGED <<calls, ops, verified, appVersion, navPlatform, stateChangeListeners, removers, cv, sel, localStorage, settings, sv, orphans>>

\* the handlers still registered after the finally block of downloadAsset
\* called unlisten(): none, or the one it asked to remove
Unlistened(call) ==
    IF call.pc = "download_asset" /\ call.live THEN {0, 1} ELSE {0}

\* download_asset resolved: unlisten, then `await invoke('verify_file_hash', ...)`
downloadUpdate_downloaded(i, late) ==
    /\ Settled
    /\ calls[i].kind = "downloadUpdate" /\ calls[i].pc = "download_asset"
    /\ TransferComplete(calls[i].sent)
    /\ late \in Unlistened(calls[i])
    /\ orphans' = [orphans EXCEPT ![i].unlistened = @ + late]
    /\ LET filePath == DownloadedTo(Get(calls[i].downloadPath))
       IN  /\ calls' = [calls EXCEPT ![i].pc = "verify_file_hash",
                                     ![i].live = FALSE,
                                     ![i].filePath = Some(filePath)]
           /\ ev' = [NoEvent EXCEPT !.op = "downloadUpdate_downloaded", !.slot = i,
                                    !.returned = "pending", !.cmd = "verify_file_hash",
                                    !.path = Some(filePath)]
    /\ NoSetState
    /\ UNCHANGED <<ops, verified, appVersion, navPlatform, stateChangeListeners, removers, cv, sel, localStorage, settings, sv>>

\* PassesVerification with the result of the verification ignored
PassesVerification_always(isValid) == TRUE

\* `if (!isValid) throw ...`: the download goes on to `ready`
PassesVerification(isValid) == isValid

\* verify_file_hash resolved with isValid
downloadUpdate_verified(i, isValid) ==
    /\ Settled
    /\ calls[i].kind = "downloadUpdate" /\ calls[i].pc = "verify_file_hash"
    /\ IF ~PassesVerification(isValid)
       THEN Catch(M_corrupt)
       ELSE setState([status |-> "ready", downloadedFilePath |-> calls[i].filePath])
    /\ verified' = IF isValid THEN verified \cup {Get(calls[i].filePath)} ELSE verified
    /\ calls' = [calls EXCEPT ![i] = NoCall]
    /\ ev' = [NoEvent EXCEPT !.op = "downloadUpdate_verified", !.slot = i,
                             !.answer = Some(isValid), !.path = calls[i].filePath,
                             !.returned = IF isValid THEN "true" ELSE "false",
                             !.failure = IF isValid THEN None ELSE Some(M_corrupt)]
    /\ UNCHANGED <<ops, appVersion, navPlatform, stateChangeListeners, removers, cv, sel, localStorage, settings, sv, orphans>>

\* the message of the error an awaited call of downloadUpdate rejects with
DownloadRejection(pc, reason) ==
    CASE pc = "check_for_updates" -> BridgeError(E_check, reason)
      [] pc = "listen" -> BridgeError(E_download, reason)
      [] pc = "download_asset" -> BridgeError(E_download, reason)
      [] pc = "verify_file_hash" -> BridgeError(E_verify, reason)
      [] OTHER -> <<reason>>

\* what the call awaited at pc rejects with
RejectionOf(pc) ==
    CASE pc = "check_for_updates" -> NotFoundError
      [] pc = "download_asset" -> NetworkError
      [] OTHER -> IOError

\* the handlers a rejected listen() leaves registered: `unlisten` is
\* still undefined in the finally block of downloadAsset, so a handler
\* the library registered before rejecting stays
Orphaned(call) ==
    IF call.pc = "listen" /\ call.live THEN {0, 1} ELSE {0}

\* an awaited call of downloadUpdate rejected: the finally block of
\* downloadAsset, then the catch block
downloadUpdate_catch(i, reason, left) ==
    /\ Settled
    /\ calls[i].kind = "downloadUpdate"
    /\ reason = RejectionOf(calls[i].pc)
    /\ left \in [rejected : Orphaned(calls[i]), unlistened : Unlistened(calls[i])]
    /\ Catch(DownloadRejection(calls[i].pc, reason))
    /\ calls' = [calls EXCEPT ![i] = NoCall]
    /\ orphans' = [orphans EXCEPT ![i].rejected = @ + left.rejected,
                                  ![i].unlistened = @ + left.unlistened]
    /\ ev' = [NoEvent EXCEPT !.op = "downloadUpdate_catch", !.slot = i,
                             !.returned = "false",
                             !.failure = Some(DownloadRejection(calls[i].pc, reason))]
    /\ UNCHANGED <<ops, verified, appVersion, navPlatform, stateChangeListeners, removers, cv, sel, localStorage, settings, sv>>

\* the removal a call of unlisten() asked for takes effect: a step of the
\* library, in which no code of the application runs
unlisten(i) ==
    /\ orphans[i].unlistened > 0
    /\ orphans' = [orphans EXCEPT ![i].unlistened = @ - 1]
    /\ UNCHANGED <<state, calls, ops, verified, ev, appVersion, navPlatform, stateChangeListeners, removers, delivered, cv, sel, localStorage, settings, sv>>

\* CanInstall without the test of the status
CanInstall_anyStatus(s) == Truthy(s.downloadedFilePath)

\* the guard of installUpdate, negated: neither status !== 'ready' nor
\* !downloadedFilePath
CanInstall(s) == s.status = "ready" /\ Truthy(s.downloadedFilePath)

\* installUpdate(): the guard, setState installing, up to
\* `await invoke('install_update', ...)`
installUpdate ==
    /\ Settled
    /\ CanCall
    /\ IF ~CanInstall(state)
       THEN /\ Catch(M_notReady)
            /\ ev' = [NoEvent EXCEPT !.op = "installUpdate", !.returned = "void",
                                     !.failure = Some(M_notReady)]
            /\ UNCHANGED calls
       ELSE /\ setState([status |-> "installing"])
            /\ calls' = [calls EXCEPT ![NewSlot] =
                            [NoCall EXCEPT !.kind = "installUpdate",
                                           !.pc = "install_update",
                                           !.updatePath = state.downloadedFilePath]]
            /\ ev' = [NoEvent EXCEPT !.op = "installUpdate", !.slot = NewSlot,
                                     !.returned = "pending", !.cmd = "install_update",
                                     !.path = state.downloadedFilePath]
    /\ ops' = ops + 1
    /\ UNCHANGED <<verified, appVersion, navPlatform, stateChangeListeners, removers, cv, sel, localStorage, settings, sv, orphans>>

\* install_update resolved (with true or false): installUpdate returns
installUpdate_settled(i, accepted) ==
    /\ Settled
    /\ calls[i].kind = "installUpdate" /\ calls[i].pc = "install_update"
    /\ calls' = [calls EXCEPT ![i] = NoCall]
    /\ ev' = [NoEvent EXCEPT !.op = "installUpdate_settled", !.slot = i,
                             !.answer = Some(accepted), !.returned = "void"]
    /\ NoSetState
    /\ UNCHANGED <<ops, verified, appVersion, navPlatform, stateChangeListeners, removers, cv, sel, localStorage, settings, sv, orphans>>

\* install_update rejected: the catch block
installUpdate_catch(i, reason) ==
    /\ Settled
    /\ calls[i].kind = "installUpdate" /\ calls[i].pc = "install_update"
    /\ reason = IOError
    /\ Catch(BridgeError(E_install, reason))
    /\ calls' = [calls EXCEPT ![i] = NoCall]
    /\ ev' = [NoEvent EXCEPT !.op = "installUpdate_catch", !.slot = i,
                             !.returned = "void",
                             !.failure = Some(BridgeError(E_install, reason))]
    /\ UNCHANGED <<ops, verified, appVersion, navPlatform, stateChangeListeners, removers, cv, sel, localStorage, settings, sv, orphans>>

Reasons == {NetworkError, NotFoundError, IOError}

\* the listener functions the application has
ListenerFns == {"f", "g"}

\* onStateChange(listener): push, and return the remover
onStateChange(listener) ==
    /\ Settled
    /\ ops < MaxOps
    /\ stateChangeListeners' = Append(stateChangeListeners, listener)
    /\ removers' = removers \cup {listener}
    /\ ev' = [NoEvent EXCEPT !.op = "onStateChange"]
    /\ ops' = ops + 1
    /\ NoSetState
    /\ UNCHANGED <<calls, verified, appVersion, navPlatform, cv, sel, localStorage, settings, sv, orphans>>

\* stateChangeListeners.filter(l => l !== listener)
Filter(listeners, listener) ==
    LET keep == {n \in 1..Len(listeners) : listeners[n] # listener}
        nth(k) == CHOOSE n \in keep : Cardinality({m \in keep : m <= n}) = k
    IN  [k \in 1..Cardinality(keep) |-> listeners[nth(k)]]

\* a call of the function onStateChange(listener) returned
unsubscribe(listener) ==
    /\ Settled
    /\ ops < MaxOps
    /\ listener \in removers
    /\ stateChangeListeners' = Filter(stateChangeListeners, listener)
    /\ ev' = [NoEvent EXCEPT !.op = "unsubscribe"]
    /\ ops' = ops + 1
    /\ NoSetState
    /\ UNCHANGED <<calls, verified, appVersion, navPlatform, removers, cv, sel, localStorage, settings, sv, orphans>>


V_120 == <<"1",".","2",".","0">>

V_119 == <<"1",".","1",".","9">>

V_110 == <<"1",".","1","0">>

V_100 == <<"1",".","0",".","0">>

V_13a == <<"1",".","3","-","a">>

V_100b1 == <<"1",".","0",".","0","-","b","e","t","a",".","1">>

V_100b10 == <<"1",".","0",".","0","-","b","e","t","a",".","1","0">>

V_100b2 == <<"1",".","0",".","0","-","b","e","t","a",".","2">>

V_100rc1 == <<"1",".","0",".","0","-","r","c","-","1">>

V_100rc2 == <<"1",".","0",".","0","-","r","c","-","2">>

V_11a == <<"1",".","1","a">>

V_1e1 == <<"1","e","1">>

V_Inf == <<"I","n","f","i","n","i","t","y">>

\* version strings compareVersions is exercised on: plain, short,
\* with a two-digit component, with pre-release suffixes (one and two
\* dashes), with components that are no decimal integers, empty
CompareSamples ==
    {V_120, V_119, V_12, V_110, V_100, V_13a, V_100b1, V_100b10, V_100b2,
     V_100rc1, V_100rc2, V_1x, V_11a, V_1e1, V_Inf, V_empty}

\* compareVersions applied to the pairs of the three versions drawn
compare ==
    /\ ~IsSome(cv.r)
    /\ cv' = [cv EXCEPT !.r = Some([aa |-> compareVersions(cv.a, cv.a),
                                    ab |-> compareVersions(cv.a, cv.b),
                                    ba |-> compareVersions(cv.b, cv.a),
                                    bc |-> compareVersions(cv.b, cv.c),
                                    ac |-> compareVersions(cv.a, cv.c)])]
    /\ UNCHANGED <<state, calls, ops, verified, ev, appVersion, navPlatform,
                   stateChangeListeners, removers, delivered,
                   sel, localStorage, settings, sv, orphans>>

\* three version strings are drawn; nothing else is called
InitCompare ==
    /\ state = InitialState
    /\ calls = [i \in Slots |-> NoCall]
    /\ ops = 0
    /\ verified = {}
    /\ ev = NoEvent
    /\ appVersion \in AppVersions
    /\ navPlatform \in NavPlatforms
    /\ stateChangeListeners = <<>>
    /\ removers = {}
    /\ delivered = <<>>
    /\ cv \in [a : CompareSamples, b : CompareSamples, c : CompareSamples, r : {None}]
    /\ sel = NoSelect
    /\ localStorage = Some(JSON_stringify(ConstructedSettings(None, AppArg)))
    /\ settings = [m \in Managers |->
                      IF m = "app" THEN Some(ConstructedSettings(None, AppArg)) ELSE None]
    /\ sv = NoSettingsEvent
    /\ orphans = [i \in Slots |-> NoOrphans]

NextCompare == compare

SpecCompare == InitCompare /\ [][NextCompare]_vars

P_MacIntel == <<"M","a","c","I","n","t","e","l">>

P_Linux == <<"L","i","n","u","x"," ","x","8","6","_","6","4">>

P_FreeBSD == <<"F","r","e","e","B","S","D"," ","a","m","d","6","4">>

\* values of navigator.platform selectPlatformAsset is exercised on
SelectPlatforms == {P_Win32, P_MacIntel, P_Linux, P_FreeBSD}

N_MyAppImage == <<"M","y","A","p","p",".","A","p","p","I","m","a","g","e">>

N_myappimage == <<"m","y","a","p","p",".","a","p","p","i","m","a","g","e">>

N_darwin_dmg == <<"a","p","p","_","d","a","r","w","i","n",".","d","m","g">>

N_darwin_pkg == <<"a","p","p","-","d","a","r","w","i","n","-","x","6","4",".","p","k","g">>

\* asset names selectPlatformAsset is exercised on
SelectNames ==
    {N_windows, N_macos, N_linux, N_MyAppImage, N_myappimage, N_darwin_dmg, N_darwin_pkg}

\* the asset lists of up to MaxAssets assets with these names; an asset
\* is tagged with its place in the list
AssetLists ==
    {[i \in DOMAIN names |-> MkAsset(names[i], i)] :
        names \in UNION {[1..n -> SelectNames] : n \in 0..MaxAssets}}

\* selectPlatformAsset applied to the list and the platform drawn
select ==
    /\ ~IsSome(sel.r)
    /\ sel' = [sel EXCEPT !.r = Some(selectPlatformAsset(sel.assets, sel.platform))]
    /\ UNCHANGED <<state, calls, ops, verified, ev, appVersion, navPlatform,
                   stateChangeListeners, removers, delivered, cv,
                   localStorage, settings, sv, orphans>>

\* an asset list and a platform are drawn; nothing else is called
InitSelect ==
    /\ state = InitialState
    /\ calls = [i \in Slots |-> NoCall]
    /\ ops = 0
    /\ verified = {}
    /\ ev = NoEvent
    /\ appVersion \in AppVersions
    /\ navPlatform \in NavPlatforms
    /\ stateChangeListeners = <<>>
    /\ removers = {}
    /\ delivered = <<>>
    /\ cv = NoCompare
    /\ sel \in [assets : AssetLists, platform : SelectPlatforms, r : {None}]
    /\ localStorage = Some(JSON_stringify(ConstructedSettings(None, AppArg)))
    /\ settings = [m \in Managers |->
                      IF m = "app" THEN Some(ConstructedSettings(None, AppArg)) ELSE None]
    /\ sv = NoSettingsEvent
    /\ orphans = [i \in Slots |-> NoOrphans]

NextSelect == select

SpecSelect == InitSelect /\ [][NextSelect]_vars

\* arguments the constructor is called with: none, App.tsx's, one that
\* switches the automatic check off
ConstructorArgs == {EmptyObject, AppArg, [autoCheck |-> FALSE]}

\* arguments configure is called with
ConfigureArgs == {[githubRepo |-> R_fork], [githubOwner |-> O_fork, autoCheck |-> FALSE]}

\* saveSettings: localStorage.setItem(key, JSON.stringify(this.settings))
\* in a try block. When setItem throws (quota exceeded, storage disabled)
\* the catch block logs the error and throws nothing: the item stays
\* what it was
saveSettings(s, item, throws) ==
    IF throws THEN item ELSE Some(JSON_stringify(s))

\* the frame of the settings operations
SettingsFrame ==
    UNCHANGED <<state, calls, verified, ev, appVersion, navPlatform,
                stateChangeListeners, removers, delivered, cv, sel, orphans>>

\* new UpdateManager(arg) for the instance m
constructor(m, arg, throws) ==
    /\ ops < MaxOps
    /\ ~IsSome(settings[m])
    /\ LET merged == ConstructedSettings(localStorage, arg)
       IN  /\ settings' = [settings EXCEPT ![m] = Some(merged)]
           /\ localStorage' = saveSettings(merged, localStorage, throws)
    /\ sv' = [NoSettingsEvent EXCEPT !.op = "constructor", !.m = m, !.arg = arg,
                                     !.found = localStorage, !.threw = throws]
    /\ ops' = ops + 1
    /\ SettingsFrame

\* m.configure(arg)
configure(m, arg, throws) ==
    /\ ops < MaxOps
    /\ IsSome(settings[m])
    /\ LET merged == Spread(Get(settings[m]), arg)
       IN  /\ settings' = [settings EXCEPT ![m] = Some(merged)]
           /\ localStorage' = saveSettings(merged, localStorage, throws)
    /\ sv' = [NoSettingsEvent EXCEPT !.op = "configure", !.m = m, !.arg = arg,
                                     !.threw = throws]
    /\ ops' = ops + 1
    /\ SettingsFrame

\* m.resetSettings()
resetSettings(m, throws) ==
    /\ ops < MaxOps
    /\ IsSome(settings[m])
    /\ settings' = [settings EXCEPT ![m] = Some(Spread(EmptyObject, DEFAULT_SETTINGS))]
    /\ localStorage' = saveSettings(Spread(EmptyObject, DEFAULT_SETTINGS), localStorage, throws)
    /\ sv' = [NoSettingsEvent EXCEPT !.op = "resetSettings", !.m = m, !.threw = throws]
    /\ ops' = ops + 1
    /\ SettingsFrame

\* m.isAutoUpdateEnabled()
isAutoUpdateEnabled(m) ==
    /\ ops < MaxOps
    /\ IsSome(settings[m])
    /\ sv' = [NoSettingsEvent EXCEPT !.op = "isAutoUpdateEnabled", !.m = m,
                                     !.answer = Some(Get(settings[m]).autoCheck)]
    /\ ops' = ops + 1
    /\ UNCHANGED <<settings, localStorage>>
    /\ SettingsFrame

\* m.setAutoUpdateEnabled(enabled)
setAutoUpdateEnabled(m, enabled, throws) ==
    /\ ops < MaxOps
    /\ IsSome(settings[m])
    /\ LET assigned == Spread(Get(settings[m]), [autoCheck |-> enabled])
       IN  /\ settings' = [settings EXCEPT ![m] = Some(assigned)]
           /\ localStorage' = saveSettings(assigned, localStorage, throws)
    /\ sv' = [NoSettingsEvent EXCEPT !.op = "setAutoUpdateEnabled", !.m = m,
                                     !.arg = [autoCheck |-> enabled],
                                     !.threw = throws]
    /\ ops' = ops + 1
    /\ SettingsFrame

\* no instance constructed yet; the storage key holds any of the samples
InitSettings ==
    /\ state = InitialState
    /\ calls = [i \in Slots |-> NoCall]
    /\ ops = 0
    /\ verified = {}
    /\ ev = NoEvent
    /\ appVersion \in AppVersions
    /\ navPlatform \in NavPlatforms
    /\ stateChangeListeners = <<>>
    /\ removers = {}
    /\ delivered = <<>>
    /\ cv = NoCompare
    /\ sel = NoSelect
    /\ localStorage \in StoredSamples
    /\ settings = [m \in Managers |-> None]
    /\ sv = NoSettingsEvent
    /\ orphans = [i \in Slots |-> NoOrphans]

\* the page constructs instances and calls their settings methods
NextSettings ==
    \/ \E m \in Managers, arg \in ConstructorArgs, throws \in BOOLEAN :
          constructor(m, arg, throws)
    \/ \E m \in Managers, arg \in ConfigureArgs, throws \in BOOLEAN :
          configure(m, arg, throws)
    \/ \E m \in Managers, throws \in BOOLEAN : resetSettings(m, throws)
    \/ \E m \in Managers : isAutoUpdateEnabled(m)
    \/ \E m \in Managers, enabled \in BOOLEAN, throws \in BOOLEAN :
          setAutoUpdateEnabled(m, enabled, throws)

SpecSettings == InitSettings /\ [][NextSettings]_vars

\* the application issues checks only
NextCheck ==
    \/ \E betaArg \in {Some(TRUE), Some(FALSE)} : checkForUpdates(betaArg)
    \/ \E i \in Slots : checkForUpdates_gotVersion(i)
    \/ \E i \in Slots, k \in CatalogIds : checkForUpdates_gotRelease(i, k)
    \/ \E i \in Slots, reason \in Reasons : checkForUpdates_catch(i, reason)

\* checks only, for a running binary of any of the sample versions
InitCheck ==
    /\ state = InitialState
    /\ calls = [i \in Slots |-> NoCall]
    /\ ops = 0
    /\ verified = {}
    /\ ev = NoEvent
    /\ appVersion \in VersionSamples
    /\ navPlatform \in NavPlatforms
    /\ stateChangeListeners = <<>>
    /\ removers = {}
    /\ delivered = <<>>
    /\ cv = NoCompare
    /\ sel = NoSelect
    /\ localStorage = Some(JSON_stringify(ConstructedSettings(None, AppArg)))
    /\ settings = [m \in Managers |->
                      IF m = "app" THEN Some(ConstructedSettings(None, AppArg)) ELSE None]
    /\ sv = NoSettingsEvent
    /\ orphans = [i \in Slots |-> NoOrphans]

SpecCheck == InitCheck /\ [][NextCheck]_vars

Next ==
    \/ \E betaArg \in {Some(TRUE), Some(FALSE)} : checkForUpdates(betaArg)
    \/ \E i \in Slots : checkForUpdates_gotVersion(i)
    \/ \E i \in Slots, k \in CatalogIds : checkForUpdates_gotRelease(i, k)
    \/ \E i \in Slots, reason \in Reasons : checkForUpdates_catch(i, reason)
    \/ downloadUpdate
    \/ \E i \in Slots, k \in CatalogIds : downloadUpdate_gotRelease(i, k)
    \/ \E i \in Slots : downloadUpdate_gotAppData(i)
    \/ \E i \in Slots, registered \in BOOLEAN : downloadUpdate_gotPath(i, registered)
    \/ \E i \in Slots : downloadAsset_listening(i)
    \/ \E i \in Slots, e \in ProgressEvents : onProgress(i, e[1], e[2])
    \/ \E payload \in ForeignPayloads : downloadProgress(payload)
    \/ \E i \in Slots, late \in 0..1 : downloadUpdate_downloaded(i, late)
    \/ \E i \in Slots, isValid \in BOOLEAN : downloadUpdate_verified(i, isValid)
    \/ \E i \in Slots, reason \in Reasons, left \in [rejected : 0..1, unlistened : 0..1] :
          downloadUpdate_catch(i, reason, left)
    \/ \E i \in Slots : unlisten(i)
    \/ installUpdate
    \/ \E i \in Slots, accepted \in BOOLEAN : installUpdate_settled(i, accepted)
    \/ \E i \in Slots, reason \in Reasons : installUpdate_catch(i, reason)

Spec == Init /\ [][Next]_vars

\* the application subscribes, unsubscribes and issues checks
NextObs ==
    \/ \E listener \in ListenerFns : onStateChange(listener)
    \/ \E listener \in ListenerFns : unsubscribe(listener)
    \/ \E betaArg \in {Some(TRUE), Some(FALSE)} : checkForUpdates(betaArg)
    \/ \E i \in Slots : checkForUpdates_gotVersion(i)
    \/ \E i \in Slots, k \in CatalogIds : checkForUpdates_gotRelease(i, k)
    \/ \E i \in Slots, reason \in Reasons : checkForUpdates_catch(i, reason)

SpecObs == Init /\ [][NextObs]_vars

\* the application after two components subscribed, g before f
InitNotify ==
    /\ state = InitialState
    /\ calls = [i \in Slots |-> NoCall]
    /\ ops = 0
    /\ verified = {}
    /\ ev = NoEvent
    /\ appVersion \in AppVersions
    /\ navPlatform \in NavPlatforms
    /\ stateChangeListeners = <<"g", "f">>
    /\ removers = {"g", "f"}
    /\ delivered = <<>>
    /\ cv = NoCompare
    /\ sel = NoSelect
    /\ localStorage = Some(JSON_stringify(ConstructedSettings(None, AppArg)))
    /\ settings = [m \in Managers |->
                      IF m = "app" THEN Some(ConstructedSettings(None, AppArg)) ELSE None]
    /\ sv = NoSettingsEvent
    /\ orphans = [i \in Slots |-> NoOrphans]

\* the whole engine, with the two listeners registered
SpecNotify == InitNotify /\ [][Next]_vars

\* the types of the state
TypeOK ==
    /\ state.status \in Statuses
    /\ ops \in 0..MaxOps
    /\ \A i \in Slots : orphans[i] \in [rejected : 0..MaxOps, unlistened : 0..MaxOps]
    /\ \A i \in Slots : calls[i].kind \in {"none", "checkForUpdates", "downloadUpdate", "installUpdate"}

\* ------------------------------------------------------------------------
\* Properties
\* ------------------------------------------------------------------------

\* C1: a downloadUpdate call made while status is `idle` leaves the
\* UpdateState unchanged (status still `idle`, no field modified).
C1_DownloadAtIdleLeavesState ==
    [][(ev'.op = "downloadUpdate" /\ state.status = "idle") => state' = state]_vars

\* C2: a downloadUpdate call made when status is not `available` invokes no
\* bridge command and leaves no suspended continuation that could; likewise
\* an installUpdate call made when status is not `ready`; install_update is
\* invoked only by a step that takes status from `ready` to `installing`,
\* hence at most once per `ready`; download_asset and verify_file_hash are
\* invoked only by the continuation of an accepted downloadUpdate.
C2_GuardsKeepBridgeQuiet ==
    [][/\ (ev'.op = "downloadUpdate" /\ state.status # "available")
            => (ev'.cmd = "none" /\ ev'.returned = "false" /\ calls' = calls)
       /\ (ev'.op = "installUpdate" /\ state.status # "ready")
            => (ev'.cmd = "none" /\ ev'.returned = "void" /\ calls' = calls)
       /\ (ev'.cmd = "install_update")
            => (ev'.op = "installUpdate" /\ state.status = "ready"
                /\ state'.status = "installing")
       /\ (ev'.op = "downloadUpdate" /\ ev'.cmd = "check_for_updates")
            => state.status = "available"
       /\ (ev'.cmd \in {"download_asset", "verify_file_hash"})
            => calls[ev'.slot].kind = "downloadUpdate"
      ]_vars

\* C2 witness: installUpdate was called a second time while the first
\* install is still awaiting install_update, and was rejected.
C2_Witness ==
    /\ ev.op = "installUpdate" /\ ev.cmd = "none"
    /\ \E i \in Slots : calls[i].kind = "installUpdate"

\* C3: when verify_file_hash answers false, that downloadUpdate call ends
\* (returns false) with status `error` and the corruption message, not
\* `ready`; and install_update is only ever invoked with a file path for
\* which verify_file_hash answered true.
C3_VerificationGate ==
    /\ (ev.op = "downloadUpdate_verified" /\ ev.answer = Some(FALSE))
         => (/\ state.status = "error"
             /\ state.error = Some(M_corrupt)
             /\ ev.returned = "false"
             /\ calls[ev.slot] = NoCall)
    /\ (ev.cmd = "install_update") => (IsSome(ev.path) /\ Get(ev.path) \in verified)

\* C3 witness: a download whose verification just answered false, after an
\* earlier download had been verified.
C3_Witness ==
    /\ ev.op = "downloadUpdate_verified" /\ ev.answer = Some(FALSE)
    /\ verified # {}

\* C4: at most one check/download/install sequence is in flight: no call is
\* suspended at an await while another one is.
C4_OneSequenceInFlight == Cardinality(InFlight) <= 1

\* C5: at most one download to the staging path is in flight: no two
\* download_asset invocations to the same destination are unsettled at once.
C5_OneDownloadInFlight ==
    \A i, j \in Transferring : calls[i].downloadPath = calls[j].downloadPath => i = j

\* the transitions of the state machine's table
TransitionTable ==
    { <<"idle", "checking">>, <<"error", "checking">>,
      <<"checking", "idle">>, <<"checking", "available">>, <<"checking", "error">>,
      <<"available", "downloading">>,
      <<"downloading", "ready">>, <<"downloading", "error">>,
      <<"ready", "installing">>,
      <<"installing", "error">> }

\* C6: every change of status is a transition of the table.
C6_TransitionsFollowTable ==
    [][state'.status # state.status
         => <<state.status, state'.status>> \in TransitionTable]_vars

\* C7: once status is `error`, only a fresh checkForUpdates call changes
\* it (to `checking`).
C7_ErrorLeftOnlyByCheck ==
    [][(state.status = "error" /\ state'.status # "error")
         => (ev'.op = "checkForUpdates" /\ state'.status = "checking")]_vars

\* C8: once status is `installing`, it can only change to `error`, and only
\* because the install_update call of that installUpdate was rejected.
C8_InstallingIsTerminal ==
    [][(state.status = "installing" /\ state'.status # "installing")
         => (ev'.op = "installUpdate_catch" /\ state'.status = "error")]_vars

\* C9: when the release source answers a check with a release whose version
\* is exactly the version getVersion returned, checkForUpdates ends with
\* status `idle` and returns false.
C9_NoUpdateWhenEqual ==
    (/\ ev.op = "checkForUpdates_gotRelease"
     /\ ev.version = Some(appVersion))
        => (state.status = "idle" /\ ev.returned = "false")

\* C9 witness: such a check just ended, for a version with a pre-release
\* suffix and a second dash.
C9_Witness ==
    /\ ev.op = "checkForUpdates_gotRelease"
    /\ ev.version = Some(appVersion)
    /\ appVersion = V_10rc1
    /\ state.status = "idle"

\* C10: a check requested with includeBeta = true queries check_for_updates
\* with includeBeta true (so that a newest release 0.3.0-beta.1 is found):
\* when getVersion settles right after such a call, the query it sends
\* carries includeBeta = true.
C10_BetaCheckIncludesPrerelease ==
    [][(/\ ev.op = "checkForUpdates" /\ ev.betaArg = Some(TRUE)
        /\ ev'.op = "checkForUpdates_gotVersion" /\ ev'.slot = ev.slot)
         => ev'.includeBeta = Some(TRUE)]_vars

\* the runs of checkForUpdates; each of them calls setState once
\* C11: every run that changes the state has called setState, and every
\* setState of a run calls every listener registered at the time exactly
\* once, within the same run, in registration order, each with the
\* committed state, which is also what getUpdateState() returns during
\* the call.
C11_ObserversNotified ==
    [][/\ state' # state => Len(delivered') >= 1
       /\ \A r \in 1..Len(delivered') :
             /\ Len(delivered'[r]) = Len(stateChangeListeners)
             /\ \A n \in 1..Len(delivered'[r]) :
                   /\ delivered'[r][n].listener = stateChangeListeners[n]
                   /\ delivered'[r][n].snapshot = state'
                   /\ delivered'[r][n].current = state']_vars

\* C11 witness: a progress event reached two registered handlers, each
\* ran setState, and each of the two setStates called g and then f.
C11_Witness ==
    /\ ev.op = "onProgress"
    /\ stateChangeListeners = <<"g", "f">>
    /\ Len(delivered) = 2
    /\ Len(delivered[1]) = 2
    /\ delivered[2][2].listener = "f"

\* C12: whatever fails inside checkForUpdates, downloadUpdate or
\* installUpdate (a guard, getVersion, the release query, the asset
\* selection, appDataDir, join, listen, the download, the verification, the
\* install), the call ends there: its promise resolves (false, or void for
\* installUpdate), status is `error` and the error text is the message of
\* the failure; no step ends with a rejected promise.
C12_NoExceptionEscapes ==
    /\ ev.returned \in {"none", "pending", "true", "false", "void"}
    /\ IsSome(ev.failure)
         => (/\ state.status = "error"
             /\ state.error = ev.failure
             /\ ev.returned = (IF ev.op \in {"installUpdate", "installUpdate_catch"}
                               THEN "void" ELSE "false")
             /\ ev.slot # 0 => calls[ev.slot] = NoCall)
    /\ ev.op \in {"checkForUpdates_catch", "downloadUpdate_catch", "installUpdate_catch"}
         => IsSome(ev.failure)

\* C12 witness: the install_update command was rejected and installUpdate
\* ended with the bridge's message recorded.
C12_Witness ==
    /\ ev.op = "installUpdate_catch"
    /\ ev.failure = Some(BridgeError(E_install, IOError))
    /\ state.status = "error"

\* C13: the `error` field is present only when status is `error`.
C13_ErrorOnlyInErrorStatus ==
    state.status # "error" => ~IsSome(state.error)

\* C14: `downloadedFilePath` is absent whenever status is idle, checking,
\* available or downloading.
C14_PathOnlyFromReady ==
    state.status \in {"idle", "checking", "available", "downloading"}
        => ~IsSome(state.downloadedFilePath)

\* C15: a `downloadProgress` present in the state is an integer in [0,100].
C15_ProgressIsPercentage ==
    IsSome(state.downloadProgress)
        => (/\ Get(state.downloadProgress).kind = "int"
            /\ Get(state.downloadProgress).val \in 0..100)

\* C16: from one state with status `downloading` to the next, the
\* published downloadProgress does not decrease; and when a download
\* succeeds (status becomes `ready`), the progress published last is 100.
C16_ProgressMonotone ==
    [][/\ (state.status = "downloading" /\ state'.status = "downloading")
            => (/\ Get(state.downloadProgress).kind = "int"
                /\ Get(state'.downloadProgress).kind = "int"
                /\ Get(state'.downloadProgress).val >= Get(state.downloadProgress).val)
       /\ (ev'.op = "downloadUpdate_verified" /\ state'.status = "ready")
            => state.downloadProgress = Some(Num(100))
      ]_vars

\* The version ordering as the specification words it: the base is the
\* text before the first `-`, read as a tuple of integers; the suffix is
\* the text after the first `-`.
FirstDash(v) ==
    IF InSeq(v, "-") THEN CHOOSE i \in 1..Len(v) : v[i] = "-" /\ ~InSeq(SubSeq(v, 1, i - 1), "-")
    ELSE Len(v) + 1

RefBase(v) == SubSeq(v, 1, FirstDash(v) - 1)

RefSuffix(v) == SubSeq(v, FirstDash(v) + 1, Len(v))

\* a component that is a decimal integer
IsInteger(s) == Len(s) > 0 /\ IsDigits(s)

WellFormedBase(v) ==
    \A i \in 1..Len(Split(RefBase(v), ".")) : IsInteger(Split(RefBase(v), ".")[i])

\* component i (from 1) of the base: 0 when missing or not an integer
RefPart(v, i) ==
    LET comps == Split(RefBase(v), ".")
    IN  IF i <= Len(comps) /\ IsInteger(comps[i]) THEN DecimalValue(comps[i]) ELSE 0

\* 1 / -1 by the first component that differs, 0 when none does
RefBaseOrder(a, b) ==
    LET n == Max(Len(Split(RefBase(a), ".")), Len(Split(RefBase(b), ".")))
        diff == {i \in 1..n : RefPart(a, i) # RefPart(b, i)}
    IN  IF diff = {} THEN 0
        ELSE LET i == CHOOSE k \in diff : \A m \in diff : k <= m
             IN  IF RefPart(a, i) > RefPart(b, i) THEN 1 ELSE -1

\* 1 / -1 / 0 by the comparison of two strings
RefTextOrder(s1, s2) == IF StrLess(s2, s1) THEN 1 ELSE IF StrLess(s1, s2) THEN -1 ELSE 0

\* C17: for versions a, b whose base components are integers, when the
\* first differing component (a missing one counting as 0) is larger in a,
\* compareVersions(a, b) is 1 and compareVersions(b, a) is -1, whatever
\* the suffixes; compare("1.2.0", "1.1.9") is 1 and compare("1.2", "1.2.0")
\* is 0.
C17_BaseOrder ==
    IsSome(cv.r) =>
        /\ (WellFormedBase(cv.a) /\ WellFormedBase(cv.b) /\ RefBaseOrder(cv.a, cv.b) = 1)
              => (Get(cv.r).ab = 1 /\ Get(cv.r).ba = -1)
        /\ (cv.a = V_120 /\ cv.b = V_119) => Get(cv.r).ab = 1
        /\ (cv.a = V_12 /\ cv.b = V_120) => Get(cv.r).ab = 0

\* C17 witness: "1.10" was compared with "1.3-a", the two-digit
\* component deciding against the one with the suffix.
C17_Witness ==
    /\ IsSome(cv.r) /\ cv.a = V_13a /\ cv.b = V_110
    /\ Get(cv.r).ab = -1 /\ Get(cv.r).ba = 1

\* C18: for versions with equal bases, one without a suffix is greater
\* than one with a suffix, and two with suffixes are ordered as their
\* suffixes are as strings.
C18_PreReleaseOrder ==
    (IsSome(cv.r) /\ RefBaseOrder(cv.a, cv.b) = 0) =>
        /\ (RefSuffix(cv.a) = <<>> /\ RefSuffix(cv.b) # <<>>) => Get(cv.r).ab = 1
        /\ (RefSuffix(cv.a) # <<>> /\ RefSuffix(cv.b) # <<>>)
              => Get(cv.r).ab = RefTextOrder(RefSuffix(cv.a), RefSuffix(cv.b))

\* C19: two versions with equal bases and different suffixes (the text
\* after the first `-`) never compare equal.
C19_SplitOnFirstDash ==
    (/\ IsSome(cv.r) /\ RefBaseOrder(cv.a, cv.b) = 0
     /\ RefSuffix(cv.a) # RefSuffix(cv.b))
        => Get(cv.r).ab # 0

\* compareVersions orders the versions: compare(a,a) = 0,
\* compare(a,b) = -compare(b,a), and compare(a,b) >= 0 with
\* compare(b,c) >= 0 gives compare(a,c) >= 0
CompareIsOrder ==
    IsSome(cv.r) =>
        /\ Get(cv.r).aa = 0
        /\ Get(cv.r).ab = -Get(cv.r).ba
        /\ (Get(cv.r).ab >= 0 /\ Get(cv.r).bc >= 0) => Get(cv.r).ac >= 0

\* C20: compareVersions orders the versions (CompareIsOrder), and a base
\* component that is not an integer counts as 0: whenever the bases read
\* that way differ, compareVersions decides as their first difference does.
C20_TotalOrderMalformedZero ==
    /\ CompareIsOrder
    /\ (IsSome(cv.r) /\ RefBaseOrder(cv.a, cv.b) # 0)
          => Get(cv.r).ab = RefBaseOrder(cv.a, cv.b)


\* the platform a value of navigator.platform stands for
PlatformOf(p) ==
    CASE p = P_Win32 -> "windows"
      [] p = P_MacIntel -> "macos"
      [] p = P_Linux -> "linux"
      [] OTHER -> "other"

\* the places of the drawn list whose asset the find predicate accepts
Hits == {i \in 1..Len(sel.assets) : AssetMatches(sel.assets[i].name, sel.platform)}

\* C21: selectPlatformAsset returns the asset at the first place of the list
\* the platform's rules accept, and none when no place is accepted or the
\* platform is none of windows, macos, linux; of app_windows_x64.exe,
\* app_macos.dmg, app_linux.AppImage it returns the first on windows and
\* none on freebsd.
C21_FirstMatchInListOrder ==
    IsSome(sel.r) =>
        /\ (Hits = {}) <=> (Get(sel.r) = None)
        /\ Hits # {} =>
              \E i \in Hits : /\ Get(sel.r) = Some(sel.assets[i])
                              /\ \A j \in Hits : i <= j
        /\ PlatformOf(sel.platform) = "other" => Get(sel.r) = None
        /\ (sel.assets = <<MkAsset(N_windows, 1), MkAsset(N_macos, 2), MkAsset(N_linux, 3)>>
            /\ sel.platform = P_Win32) => Get(sel.r) = Some(MkAsset(N_windows, 1))

\* app_linux.AppImage, then app_macos.dmg, then another app_linux.AppImage
\* on Linux: two places match and the asset of the first one was returned
C21_Witness ==
    /\ sel.platform = P_Linux
    /\ sel.assets = <<MkAsset(N_linux, 1), MkAsset(N_macos, 2), MkAsset(N_linux, 3)>>
    /\ sel.r = Some(Some(MkAsset(N_linux, 1)))

\* the matching rule of a platform, every token and extension compared
\* without regard to case
RefMatches(name, platform) ==
    LET lower == ToLowerCase(name)
        has(tokens) == \E s \in tokens : Includes(lower, ToLowerCase(s))
        ends(exts) == \E s \in exts : EndsWith(lower, ToLowerCase(s))
    IN  CASE platform = "windows" -> has({S_windows, S_win}) \/ ends({S_msi, S_exe})
          [] platform = "macos" -> has({S_mac, S_darwin}) \/ ends({S_dmg, S_pkg})
          [] platform = "linux" -> has({S_linux}) \/ ends({S_AppImage, S_deb, S_rpm})
          [] OTHER -> FALSE

\* C22: an asset is selected whenever a name of the list matches the
\* platform's tokens or extensions compared case-insensitively (on linux:
\* contains "linux" or ends with .AppImage, .deb, .rpm in any case).
C22_CaseInsensitiveMatch ==
    IsSome(sel.r) =>
        ((Get(sel.r) # None) <=>
            \E i \in 1..Len(sel.assets) :
                RefMatches(sel.assets[i].name, PlatformOf(sel.platform)))

\* the names whose only platform marks are those of macOS
MacOnlyNames == {N_macos, N_darwin_dmg, N_darwin_pkg}

\* C29: on windows selectPlatformAsset never returns an asset marked for
\* macOS only, wherever it stands in the list.
C29_NoForeignAsset ==
    (IsSome(sel.r) /\ PlatformOf(sel.platform) = "windows" /\ Get(sel.r) # None)
        => Get(Get(sel.r)).name \notin MacOnlyNames


\* C23: when the release downloadUpdate fetched has no asset for the
\* platform, that step ends the call: status `error` with the message
\* "No compatible update found for your platform", false returned, no
\* bridge command invoked and no continuation left that could invoke one.
C23_NoCompatibleAsset ==
    (/\ ev.op = "downloadUpdate_gotRelease"
     /\ \A n \in 1..Len(AssetsOf(Get(ev.version))) :
            ~AssetMatches(AssetsOf(Get(ev.version))[n].name, navPlatform))
        => /\ state.status = "error"
           /\ state.error = Some(<<"No compatible update found for your platform">>)
           /\ ev.returned = "false"
           /\ ev.cmd = "none"
           /\ calls[ev.slot] = NoCall

\* the download fetched release 0.3.0, which has no Windows installer
C23_Witness ==
    /\ ev.op = "downloadUpdate_gotRelease" /\ ev.version = Some(V_030)
    /\ navPlatform = P_Win32
    /\ ev.returned = "false" /\ state.status = "error"

\* C26: in every reachable UpdateState, `available` comes with a
\* latestVersion, `ready` and `installing` with a non-empty
\* downloadedFilePath, `error` with an error, `downloading` with a
\* downloadProgress.
C26_StatusImpliesFields ==
    /\ state.status = "available" => IsSome(state.latestVersion)
    /\ state.status \in {"ready", "installing"}
          => (IsSome(state.downloadedFilePath) /\ Get(state.downloadedFilePath) # <<>>)
    /\ state.status = "error" => IsSome(state.error)
    /\ state.status = "downloading" => IsSome(state.downloadProgress)

\* a download was accepted and has just set status `downloading`
C26_Witness ==
    /\ ev.op = "downloadUpdate" /\ ev.returned = "pending"
    /\ state.status = "downloading" /\ state.downloadProgress = Some(Num(0))

\* C27: when downloadUpdate sets status `ready`, the file downloaded is the
\* one of the release whose version is the latestVersion of the state.
C27_ReadyArtifactIsLatestVersion ==
    (ev.op = "downloadUpdate_verified" /\ ev.returned = "true")
        => (/\ state.status = "ready"
            /\ IsSome(state.latestVersion)
            /\ state.downloadedFilePath
                  = Some(DownloadedTo(JoinPath(AppDataDir, Get(state.latestVersion)))))

\* C28: after installUpdate settles, status is `installing` only if
\* install_update answered true.
C28_InstallingOnlyIfAccepted ==
    (ev.op = "installUpdate_settled" /\ state.status = "installing")
        => ev.answer = Some(TRUE)


\* the members of the object the storage key holds (none when it holds
\* no object)
StoredObject ==
    IF IsSome(localStorage) /\ Get(localStorage).json = "object"
    THEN Get(localStorage).members ELSE EmptyObject

\* C24: a read of a setting through any instance returns the value most
\* recently written to the storage key, whichever instance wrote it.
C24_ReadsSeeLastWrite ==
    sv.op = "isAutoUpdateEnabled" =>
        ("autoCheck" \in DOMAIN StoredObject /\ sv.answer = Some(StoredObject.autoCheck))

\* the record the constructor found persisted: the members of the stored
\* object, nothing when the key was absent or held no readable object
RefPersisted ==
    IF IsSome(sv.found) /\ Get(sv.found).json = "object"
    THEN Get(sv.found).members ELSE EmptyObject

\* the default of every setting
RefDefault(k) ==
    CASE k = "autoCheck" -> TRUE
      [] k = "githubOwner" -> <<"Asdmir786">>
      [] k = "githubRepo" -> <<"helper-wab2b-dashboard-system">>

\* after construction every setting has the value of the constructor
\* argument if the argument has it, else the persisted value if the
\* persisted record has it, else its default
RefMerged ==
    /\ IsSome(settings[sv.m])
    /\ \A k \in {"autoCheck", "githubOwner", "githubRepo"} :
          /\ k \in DOMAIN Get(settings[sv.m])
          /\ Get(settings[sv.m])[k] =
                IF k \in DOMAIN sv.arg THEN sv.arg[k]
                ELSE IF k \in DOMAIN RefPersisted THEN RefPersisted[k]
                ELSE RefDefault(k)

\* C25, as stated: after construction the effective settings are the
\* argument over the persisted record over the defaults, and the storage
\* key holds the merged settings.
C25_ConstructorMergeSaved ==
    sv.op = "constructor" =>
        /\ RefMerged
        /\ StoredObject = Get(settings[sv.m])

\* C25, amended: after construction the effective settings are the
\* argument over the persisted record over the defaults; the storage key
\* holds the merged settings when the storage accepted the write, and
\* is left as the constructor found it when setItem threw.
C25_ConstructorMerge ==
    sv.op = "constructor" =>
        /\ RefMerged
        /\ ~sv.threw => localStorage = Some(JSON_stringify(Get(settings[sv.m])))
        /\ sv.threw => localStorage = sv.found

\* constructed with App.tsx's argument over a persisted record that has
\* another owner and repository and autoCheck false
C25_Witness ==
    /\ sv.op = "constructor" /\ sv.arg = AppArg
    /\ sv.found = Some([json |-> "object",
                        members |-> [autoCheck |-> FALSE, githubOwner |-> O_fork,
                                     githubRepo |-> R_fork]])
    /\ settings[sv.m] = Some([autoCheck |-> FALSE, githubOwner |-> O_Asdmir786,
                              githubRepo |-> R_helper])
    /\ sv.threw
    /\ localStorage = sv.found


\* C30: the function onStateChange returned removes the one registration
\* it was returned for and no other: a call of it takes at most one entry
\* out of the listener list, so that a second registration of the same
\* function keeps receiving the later snapshots.
C30_RemovesOnlyItsRegistration ==
    [][ev'.op = "unsubscribe"
          => Len(stateChangeListeners') >= Len(stateChangeListeners) - 1]_vars

====
